---- MODULE Spec2Model ----
(***************************************************************************)
(* comix-neo: the Amazon device authentication session (comix/amz.py) and  *)
(* the credential record (comix/models.py), as a state machine; the page   *)
(* keys (comix/key.py), the exporter (comix/exporter.py) and the download  *)
(* loop (comix/cli.py).                                                    *)
(*                                                                         *)
(* Time is counted in ticks of 1/Res second, so that the truncation of the *)
(* wall clock to whole seconds (int(...timestamp())) is visible.           *)
(* An Optional value is a sequence of length 0 (None) or 1.                *)
(***************************************************************************)
EXTENDS Integers, Sequences, FiniteSets, TLC

VARIABLES
    deviceFile,   \* USER_PATH / "comix_device_id": [kind, text]
    tokenFile,    \* USER_PATH / "token_<email>.<domain>.json": [kind, data]
    alive,        \* an AmazonAuth object has been constructed
    password,     \* self._password (Optional)
    account,      \* self._account (Optional AmazonAccount)
    device_id,    \* self._device_id (sequence of characters)
    ip,           \* self._ip_address_frc (Optional)
    now,          \* the wall clock, in ticks
    exporter,     \* the MangaExporter of a download and its output directory (Optional)
    callers,      \* the threads that read AmazonAuth.token: where each one is
    last          \* what the last operation did (observation only)

vars ==
    <<deviceFile, tokenFile, alive, password, account, device_id, ip, now, exporter,
      callers, last>>

-----------------------------------------------------------------------------
(* Bounds of the model *)

\* ticks per second
Res == 2
\* the clock runs for this many refresh windows
MaxWindows == 1
\* the server hands out tokens numbered 1..MaxNonce
MaxNonce == 1
\* __init__ draws its random serial from this many values
MaxSeed == 4

\* a request that is not answered at once takes two seconds
SlowCall == 2 * Res
\* the clock is looked at up to MaxSlack ticks after a whole number of refresh windows
MaxSlack == SlowCall

(* Program constants *)

\* refresh_token: self._account.update_expiry(3600)
REFRESH_WINDOW == 3600
\* __init__: token_hex(16), and the length the stored id is compared with
SERIAL_BYTES == 16
EXPECTED_LEN == 16

\* the instants of the model
InClock(t) ==
    /\ t \div (REFRESH_WINDOW * Res) <= MaxWindows
    /\ t % (REFRESH_WINDOW * Res) <= MaxSlack

None == << >>
Some(x) == <<x>>

EMAIL == "user@example.com"
DOMAIN_TLD == "com"

-----------------------------------------------------------------------------
(* Device serial: comix/amz.py __init__ *)

HexDigits == <<"0", "1", "2", "3", "4", "5", "6", "7", "8", "9", "a", "b", "c", "d", "e", "f">>

IsHexChar(c) == \E i \in 1..Len(HexDigits) : HexDigits[i] = c

\* secrets.token_hex(nbytes): 2 * nbytes hex digits; seed stands for the random bytes
token_hex(nbytes, seed) ==
    [i \in 1..(2 * nbytes) |-> HexDigits[((seed + i) % 16) + 1]]

Seeds == 1..MaxSeed

IsSpace(c) == c \in {" ", "\n", "\t"}

RECURSIVE lstrip(_)
lstrip(s) == IF s # << >> /\ IsSpace(Head(s)) THEN lstrip(Tail(s)) ELSE s

RECURSIVE rstrip(_)
rstrip(s) ==
    IF s # << >> /\ IsSpace(s[Len(s)]) THEN rstrip(SubSeq(s, 1, Len(s) - 1)) ELSE s

\* str.strip()
strip(s) == rstrip(lstrip(s))

\* "exactly 32 hex characters"
IsValidSerial(s) == Len(s) = 32 /\ \A i \in 1..Len(s) : IsHexChar(s[i])

NoFile == [kind |-> "absent", text |-> << >>]
TextFile(s) == [kind |-> "file", text |-> s]

\* __init__, lines 78-90: the result is the id in use and the file afterwards
load_device_id(file, seed) ==
    IF file.kind = "file"
    THEN LET read_device_id == strip(file.text)
         IN  IF Len(read_device_id) # EXPECTED_LEN
             THEN [device_id |-> token_hex(SERIAL_BYTES, seed),
                   file |-> TextFile(token_hex(SERIAL_BYTES, seed))]
             ELSE [device_id |-> read_device_id, file |-> file]
    ELSE [device_id |-> token_hex(SERIAL_BYTES, seed),
          file |-> TextFile(token_hex(SERIAL_BYTES, seed))]

\* contents the device file may hold before the first run
Garbage10 == <<"n", "o", "t", "-", "a", "-", "h", "e", "x", "!">>
Stored16 == [i \in 1..16 |-> HexDigits[i]]
Stored16nl == Stored16 \o <<"\n">>
Stored32 == [i \in 1..32 |-> HexDigits[((i * 5) % 16) + 1]]

InitDeviceFiles ==
    {NoFile, TextFile(Garbage10), TextFile(Stored16), TextFile(Stored16nl), TextFile(Stored32)}

-----------------------------------------------------------------------------
(* The credential record: comix/models.py *)

\* int(datetime.now(timezone.utc).timestamp()): the clock cut to whole seconds
IntSeconds(t) == (t \div Res) * Res

\* AmazonAccount.is_expired
is_expired(acct, t) == acct.expire_at < IntSeconds(t)

\* a credential that forgets where the old expiry was measured from
update_expiry_extend(acct, expires_in, t) ==
    [acct EXCEPT !.expire_at = @ + expires_in * Res]

\* AmazonAccount.update_expiry
update_expiry(acct, expires_in, t) ==
    [acct EXCEPT !.expire_at = IntSeconds(t) + expires_in * Res]

\* AmazonDevice.from_data
device_from_data(data) ==
    [name |-> data.device_name, serial |-> data.device_serial_number, type |-> data.device_type]

\* AmazonDevice.to_dict / AmazonDevice.from_dict
device_to_dict(dev) == [name |-> dev.name, serial |-> dev.serial, type |-> dev.type]
device_from_dict(data) == [name |-> data.name, serial |-> data.serial, type |-> data.type]

\* The body of a registration answer.  The flags say which parts are present;
\* n numbers the tokens the server issued, expires_in is the bearer's lifetime.
RegisterData(success, device_info, customer_info, bearer, mac_dms, n, expires_in) ==
    [success |-> success, device_info |-> device_info, customer_info |-> customer_info,
     bearer |-> bearer, mac_dms |-> mac_dms, n |-> n, expires_in |-> expires_in]

\* AmazonAccount.from_data: [error, account]
from_data(data, email, pw, domain, current_time) ==
    LET fail(e) == [error |-> e, account |-> None]
    IN  IF ~data.success THEN fail("ValueError")
        ELSE IF ~data.device_info /\ ~data.customer_info THEN fail("ValueError")
        ELSE IF ~data.device_info THEN fail("ValueError")
        ELSE IF ~data.customer_info THEN fail("ValueError")
        ELSE IF ~data.bearer /\ ~data.mac_dms THEN fail("ValueError")
        ELSE IF ~data.bearer THEN fail("ValueError")
        ELSE IF ~data.mac_dms THEN fail("ValueError")
        ELSE [error |-> "none",
              account |-> Some(
                [id |-> "amzn1.account", name |-> "Reader", email |-> email,
                 password |-> pw, region |-> "NA", pool |-> None, domain |-> domain,
                 device |-> device_from_data(
                     [device_name |-> "Reader's Pixel 2", device_serial_number |-> "serial",
                      device_type |-> "A2A33MVZVPQKHY"]),
                 access_token |-> <<"bearer", data.n>>,
                 refresh_token |-> <<"refresh", data.n>>,
                 private_key |-> <<"mac_dms key", data.n>>,
                 adp_token |-> <<"mac_dms adp", data.n>>,
                 expire_at |-> current_time + data.expires_in * Res])]

AccountKeys ==
    {"id", "name", "email", "password", "region", "pool", "domain", "device",
     "access_token", "refresh_token", "private_key", "adp_token", "expire_at"}

\* AmazonAccount.to_dict
to_dict(acct) ==
    [id |-> acct.id, name |-> acct.name, email |-> acct.email, password |-> acct.password,
     region |-> acct.region, pool |-> acct.pool, domain |-> acct.domain,
     device |-> device_to_dict(acct.device),
     access_token |-> acct.access_token, refresh_token |-> acct.refresh_token,
     private_key |-> acct.private_key, adp_token |-> acct.adp_token,
     expire_at |-> acct.expire_at]

\* AmazonAccount.from_dict: [error, account]; a missing key is a KeyError
from_dict(data) ==
    IF ~(AccountKeys \subseteq DOMAIN data)
    THEN [error |-> "KeyError", account |-> None]
    ELSE [error |-> "none",
          account |-> Some(
            [id |-> data.id, name |-> data.name, email |-> data.email,
             password |-> data.password, region |-> data.region, pool |-> data.pool,
             domain |-> data.domain, device |-> device_from_dict(data.device),
             access_token |-> data.access_token, refresh_token |-> data.refresh_token,
             private_key |-> data.private_key, adp_token |-> data.adp_token,
             expire_at |-> data.expire_at])]

\* The token file: absent, some text that is not JSON, or a JSON object
NoTokenFile == [kind |-> "absent", data |-> None]
NotJson == [kind |-> "text", data |-> None]
JsonFile(d) == [kind |-> "json", data |-> Some(d)]

\* json.load(f) followed by AmazonAccount.from_dict (login, line 260)
load_account(file) ==
    IF file.kind = "json" THEN from_dict(file.data[1])
    ELSE [error |-> "ValueError", account |-> None]

-----------------------------------------------------------------------------
(* The session while one operation runs.                                   *)
(* S = [account, tokenFile, ip, now] is the program's state; exc is the    *)
(* exception being raised ("none": running normally); trace lists the      *)
(* methods entered and the requests sent, in order; caught is the          *)
(* exception login() swallowed; granted is the access token the refresh    *)
(* endpoint answered with; loaded says what login() found in the file.     *)

\* How long a request takes.  Only the device association request is given a
\* duration: it lies between the clock reading that dates a new credential
\* (from_data) and the expiry test that login() and token() make afterwards.
\* Time before an operation's first look at the clock is Tick's.
Latency(call) == IF call = "POST registerAssociatedDevice" THEN {0, SlowCall} ELSE {0}
Nonces == 1..MaxNonce
ExpiresInChoices == {1, REFRESH_WINDOW}

Raise(S, e) == [S EXCEPT !.exc = e]
Enter(S, method) == [S EXCEPT !.trace = Append(@, method)]

\* a request goes out and its answer comes back some time later
Net(S, call) == { [S EXCEPT !.trace = Append(@, call), !.now = @ + d] : d \in Latency(call) }

\* the outcomes that go on to the next statement, and those that are raising
Running(SS) == { S \in SS : S.exc = "none" }
Raising(SS) == { S \in SS : S.exc # "none" }

\* with self._token_path.open("w") as f: json.dump(self._account.to_dict(), f)
save_token(S) == [S EXCEPT !.tokenFile = JsonFile(to_dict(S.account[1]))]

\* ip_address, lines 96-100
ip_address(S) ==
    IF S.ip # None THEN {S}
    ELSE UNION { {[S1 EXCEPT !.ip = Some("203.0.113.7")], Raise(S1, "ConnectionError")} :
                 S1 \in Net(S, "GET api.ipify.org") }

\* _generate_frc, lines 140-164: the only effect on the session is ip_address
generate_frc(S) == ip_address(S)

\* answers of the device association endpoint
AssocResponses ==
    {[kind |-> "ConnectionError", status |-> 0, body |-> "none", n |-> 1]}
    \cup {[kind |-> "response", status |-> 200, body |-> b, n |-> n] :
            b \in {"full"}, n \in Nonces}
    \cup {[kind |-> "response", status |-> 200, body |-> b, n |-> 1] :
            b \in {"no_adp"}}
    \cup {[kind |-> "response", status |-> 503, body |-> "none", n |-> 1]}

\* resp.status_code of the association answer, as the session's trace keeps it
AssocStatus(status) == IF status = 200 THEN "registerAssociatedDevice 200"
                       ELSE "registerAssociatedDevice 503"
Answered(S, status) == [S EXCEPT !.trace = Append(@, AssocStatus(status))]

\* a registration that takes any answer but 200 for a failure
register_device_strict(S) ==
    IF S.account = None THEN {Raise(S, "ValueError")}
    ELSE UNION { {
        IF a.kind = "ConnectionError" THEN Raise(S1, "ConnectionError")
        ELSE LET S2 == Answered(S1, a.status)
        IN  IF a.status = 200
        THEN IF a.body = "not_xml" THEN Raise(S2, "ExpatError")
             ELSE IF a.body = "no_key" THEN Raise(S2, "KeyError")
             ELSE IF a.body = "no_adp"
             THEN Raise([S2 EXCEPT !.account[1].private_key = <<"firs key", a.n>>],
                        "KeyError")
             ELSE save_token([S2 EXCEPT !.account[1].private_key = <<"firs key", a.n>>,
                                        !.account[1].adp_token = <<"firs adp", a.n>>])
        ELSE Raise(S2, "HTTPError")
        : a \in AssocResponses } : S1 \in Net(S, "POST registerAssociatedDevice") }

\* register_device, lines 339-363
register_device(S) ==
    IF S.account = None THEN {Raise(S, "ValueError")}
    ELSE UNION { {
        IF a.kind = "ConnectionError" THEN Raise(S1, "ConnectionError")
        ELSE LET S2 == Answered(S1, a.status)
        IN  IF a.status = 200
        THEN IF a.body = "not_xml" THEN Raise(S2, "ExpatError")
             ELSE IF a.body = "no_key" THEN Raise(S2, "KeyError")
             ELSE IF a.body = "no_adp"
             THEN Raise([S2 EXCEPT !.account[1].private_key = <<"firs key", a.n>>],
                        "KeyError")
             ELSE save_token([S2 EXCEPT !.account[1].private_key = <<"firs key", a.n>>,
                                        !.account[1].adp_token = <<"firs adp", a.n>>])
        ELSE save_token(S2)
        : a \in AssocResponses } : S1 \in Net(S, "POST registerAssociatedDevice") }

\* Answers of the registration endpoint to a request that carries the password pw.
\* The identity provider registers nobody who sends no password (a JSON null).
RegisterResponses(pw) ==
    {[kind |-> "ConnectionError", data |-> None], [kind |-> "JSONDecodeError", data |-> None]}
    \cup {[kind |-> "json", data |-> Some(RegisterData(TRUE, TRUE, TRUE, TRUE, TRUE, n, e))] :
            n \in IF pw = None THEN {} ELSE Nonces, e \in ExpiresInChoices}
    \cup {[kind |-> "json", data |-> Some(d)] :
            d \in {RegisterData(FALSE, FALSE, FALSE, FALSE, FALSE, 1, 1),
                   RegisterData(TRUE, FALSE, TRUE, TRUE, TRUE, 1, 1),
                   RegisterData(TRUE, TRUE, FALSE, TRUE, TRUE, 1, 1),
                   RegisterData(TRUE, TRUE, TRUE, FALSE, FALSE, 1, 1),
                   RegisterData(TRUE, TRUE, TRUE, TRUE, FALSE, 1, 1)}}

\* authenticate, lines 210-220: the registration request and what follows
authenticate_post(S) ==
    UNION { UNION {
        IF r.kind # "json" THEN {Raise(S1, r.kind)}
        ELSE LET amz_account == from_data(r.data[1], EMAIL, password, DOMAIN_TLD, S1.now)
             IN  IF amz_account.error # "none" THEN {Raise(S1, amz_account.error)}
                 ELSE register_device([S1 EXCEPT !.account = amz_account.account])
        : r \in RegisterResponses(password) } : S1 \in Net(S, "POST /auth/register") }

\* authenticate, lines 177-220
authenticate(S) ==
    LET frc == generate_frc(Enter(S, "authenticate"))
    IN  Raising(frc) \cup UNION { authenticate_post(S1) : S1 \in Running(frc) }

\* authenticate() and then: with token_path.open("w") as f: json.dump(...)
authenticate_and_save(S) ==
    LET done == authenticate(S)
    IN  Raising(done) \cup { save_token(S1) : S1 \in Running(done) }

\* answers of the token endpoint
RefreshResponses ==
    {[kind |-> "ConnectionError", has_token |-> FALSE, n |-> 1],
     [kind |-> "JSONDecodeError", has_token |-> FALSE, n |-> 1],
     [kind |-> "json", has_token |-> FALSE, n |-> 1]}
    \cup {[kind |-> "json", has_token |-> TRUE, n |-> n] : n \in Nonces}

\* a refresh that opens the token file for writing before it reads the answer
refresh_post_truncating(S) ==
    UNION { {
        IF r.kind # "json" THEN Raise([S1 EXCEPT !.tokenFile = NotJson], r.kind)
        ELSE IF ~r.has_token THEN Raise([S1 EXCEPT !.tokenFile = NotJson], "KeyError")
        ELSE save_token(
               [S1 EXCEPT !.account[1] = update_expiry(
                              [@ EXCEPT !.access_token = <<"refreshed", r.n>>],
                              REFRESH_WINDOW, S1.now),
                          !.granted = Some(<<"refreshed", r.n>>)])
        : r \in RefreshResponses } : S1 \in Net(S, "POST /auth/token") }

\* a refresh that keeps the new access token in memory only
refresh_post_unsaved(S) ==
    UNION { {
        IF r.kind # "json" THEN Raise(S1, r.kind)
        ELSE IF ~r.has_token THEN Raise(S1, "KeyError")
        ELSE [S1 EXCEPT !.account[1] = update_expiry(
                            [@ EXCEPT !.access_token = <<"refreshed", r.n>>],
                            REFRESH_WINDOW, S1.now),
                        !.granted = Some(<<"refreshed", r.n>>)]
        : r \in RefreshResponses } : S1 \in Net(S, "POST /auth/token") }

\* refresh_token, lines 231-252: the token request and what follows
refresh_post(S) ==
    UNION { {
        IF r.kind # "json" THEN Raise(S1, r.kind)
        ELSE IF ~r.has_token THEN Raise(S1, "KeyError")
        ELSE save_token(
               [S1 EXCEPT !.account[1] = update_expiry(
                              [@ EXCEPT !.access_token = <<"refreshed", r.n>>],
                              REFRESH_WINDOW, S1.now),
                          !.granted = Some(<<"refreshed", r.n>>)])
        : r \in RefreshResponses } : S1 \in Net(S, "POST /auth/token") }

\* a refresh that asks the server before it looks for the password
refresh_token_unchecked(S) ==
    IF S.account = None THEN authenticate(Enter(S, "refresh_token"))
    ELSE refresh_post(Enter(S, "refresh_token"))

\* refresh_token, lines 222-252
refresh_token(S) ==
    IF S.account = None THEN authenticate(Enter(S, "refresh_token"))
    ELSE IF password = None THEN {Raise(Enter(S, "refresh_token"), "AuthFailed")}
    ELSE refresh_post(Enter(S, "refresh_token"))

\* a login that falls back to registration only when the password is missing
login_check_narrow(S) ==
    IF is_expired(S.account[1], S.now)
    THEN UNION {
           IF S1.exc # "AuthFailed" THEN {S1}
           ELSE authenticate_and_save([S1 EXCEPT !.exc = "none", !.caught = S1.exc])
           : S1 \in refresh_token(S) }
    ELSE {S}

\* login, lines 268-276: the loaded credential is checked and refreshed
login_check(S) ==
    IF is_expired(S.account[1], S.now)
    THEN UNION {
           IF S1.exc = "none" THEN {S1}
           ELSE authenticate_and_save([S1 EXCEPT !.exc = "none", !.caught = S1.exc])
           : S1 \in refresh_token(S) }
    ELSE {S}

\* what login() found in the token file
FileStatus(file, t) ==
    IF file.kind = "absent" THEN "absent"
    ELSE IF load_account(file).error # "none" THEN "unparsable"
    ELSE IF is_expired(load_account(file).account[1], t) THEN "expired"
    ELSE "valid"

\* login, lines 254-281
login(S) ==
    LET S0 == [Enter(S, "login") EXCEPT !.loaded = FileStatus(S.tokenFile, S.now)]
    IN  IF S0.tokenFile.kind # "absent"
        THEN LET parsed == load_account(S0.tokenFile)
             IN  IF parsed.error = "none"
                 THEN login_check([S0 EXCEPT !.account = parsed.account])
                 ELSE LET fresh == authenticate_and_save(S0)
                      IN  Raising(fresh) \cup UNION { login_check(S1) : S1 \in Running(fresh) }
        ELSE authenticate_and_save(S0)

\* token, lines 371-372: login() if no credential is loaded yet
token_login(S) ==
    IF S.account = None THEN login(Enter(S, "token")) ELSE {Enter(S, "token")}

\* an accessor that refreshes on every read
token_eager(S) ==
    LET ready == token_login(S)
    IN  Raising(ready) \cup UNION { refresh_token(S1) : S1 \in Running(ready) }

\* an accessor that logs in again when the credential is expired
token_relogin(S) ==
    LET ready == token_login(S)
    IN  Raising(ready) \cup
        UNION { IF is_expired(S1.account[1], S1.now) THEN login(S1) ELSE {S1} :
                S1 \in Running(ready) }

\* an accessor that re-registers when the refresh fails
token_escalating(S) ==
    LET ready == token_login(S)
    IN  Raising(ready) \cup
        UNION { IF is_expired(S1.account[1], S1.now)
                THEN UNION { IF S2.exc = "none" THEN {S2}
                             ELSE authenticate([S2 EXCEPT !.exc = "none"])
                             : S2 \in refresh_token(S1) }
                ELSE {S1} :
                S1 \in Running(ready) }

\* token, lines 369-375; the value returned is account.access_token
token(S) ==
    LET ready == token_login(S)
    IN  Raising(ready) \cup
        UNION { IF is_expired(S1.account[1], S1.now) THEN refresh_token(S1) ELSE {S1} :
                S1 \in Running(ready) }

-----------------------------------------------------------------------------
(* The state machine *)

Count(trace, e) == Len(SelectSeq(trace, LAMBDA x : x = e))

Requests ==
    {"GET api.ipify.org", "POST /auth/register", "POST registerAssociatedDevice",
     "POST /auth/token"}

NetCalls(trace) == Len(SelectSeq(trace, LAMBDA x : x \in Requests))

\* the in-memory credential as the operation finds it
Status(acct, t) ==
    IF acct = None THEN "none" ELSE IF is_expired(acct[1], t) THEN "expired" ELSE "valid"

Start ==
    [account |-> account, tokenFile |-> tokenFile, ip |-> ip, now |-> now,
     exc |-> "none", trace |-> << >>, caught |-> "none", granted |-> None,
     loaded |-> "n/a"]

Idle ==
    [op |-> "none", exc |-> "none", trace |-> << >>, caught |-> "none", granted |-> None,
     loaded |-> "n/a", pre |-> "none", ret |-> None]

\* the operation op ends in S2
Commit(op, S2, ret) ==
    /\ InClock(S2.now)
    /\ account' = S2.account
    /\ tokenFile' = S2.tokenFile
    /\ ip' = S2.ip
    /\ now' = S2.now
    /\ last' = [op |-> op, exc |-> S2.exc, trace |-> S2.trace, caught |-> S2.caught,
                granted |-> S2.granted, loaded |-> S2.loaded,
                pre |-> Status(account, now), ret |-> ret]
    /\ UNCHANGED <<deviceFile, alive, password, device_id, exporter, callers>>

Passwords == {None, Some("hunter2")}

InitTokenFiles == {NoTokenFile, NotJson, JsonFile([email |-> EMAIL])}

\* The sessions of one installation whose device file holds a 16-character id,
\* the one value __init__ keeps.
Init ==
    /\ deviceFile = TextFile(Stored16)
    /\ tokenFile \in InitTokenFiles
    /\ alive = FALSE
    /\ password = None
    /\ account = None
    /\ device_id = << >>
    /\ ip = None
    /\ now = 0
    /\ exporter = None
    /\ callers = << >>
    /\ last = Idle

\* AmazonAuth(email, password, domain): __init__, lines 69-94
Construct ==
    /\ last = Idle
    /\ \E pw \in Passwords, seed \in Seeds :
        LET r == load_device_id(deviceFile, seed)
        IN  /\ alive' = TRUE
            /\ password' = pw
            /\ account' = None
            /\ ip' = None
            /\ device_id' = r.device_id
            /\ deviceFile' = r.file
            /\ last' = [Idle EXCEPT !.op = "construct", !.pre = Status(account, now)]
            /\ UNCHANGED <<tokenFile, now, exporter, callers>>

Login ==
    /\ alive /\ last = Idle
    /\ \E S2 \in login(Start) : Commit("login", S2, None)

Authenticate ==
    /\ alive /\ last = Idle
    /\ \E S2 \in authenticate(Start) : Commit("authenticate", S2, None)

RefreshToken ==
    /\ alive /\ last = Idle
    /\ \E S2 \in refresh_token(Start) : Commit("refresh_token", S2, None)

Token ==
    /\ alive /\ last = Idle
    /\ \E S2 \in token(Start) :
         Commit("token", S2, IF S2.exc = "none" THEN Some(S2.account[1].access_token) ELSE None)

\* time passes between operations: two seconds, a refresh window, or a refresh
\* window and a fraction of a second
Jumps == {SlowCall, REFRESH_WINDOW * Res, REFRESH_WINDOW * Res + 1}

Tick ==
    /\ last = Idle
    /\ \E d \in Jumps : InClock(now + d) /\ now' = now + d
    /\ UNCHANGED <<deviceFile, tokenFile, alive, password, account, device_id, ip, exporter,
                   callers, last>>

\* the caller takes the result, or the exception, of the operation that ended
Return ==
    /\ last # Idle
    /\ last' = Idle
    /\ UNCHANGED <<deviceFile, tokenFile, alive, password, account, device_id, ip, now,
                   exporter, callers>>

Next == Construct \/ Login \/ Authenticate \/ RefreshToken \/ Token \/ Tick \/ Return

Spec == Init /\ [][Next]_vars

\* The device serial over successive constructions, from every kind of device file
InitDevice ==
    /\ deviceFile \in InitDeviceFiles
    /\ tokenFile = NoTokenFile
    /\ alive = FALSE
    /\ password = None
    /\ account = None
    /\ device_id = << >>
    /\ ip = None
    /\ now = 0
    /\ exporter = None
    /\ callers = << >>
    /\ last = Idle

NextDevice == Construct \/ Tick \/ Return

SpecDevice == InitDevice /\ [][NextDevice]_vars

-----------------------------------------------------------------------------
(* Signed requests: amz.py, signed_request *)

APP_NAME == "com.iconology.comix"
PFM == "A1F83G8C2ARO7P"
SW_VERSION == "1221328936"

Digit(d) == HexDigits[d + 1]
TwoDigits(n) == <<Digit((n \div 10) % 10), Digit(n % 10)>>
Pow10 == <<100000, 10000, 1000, 100, 10, 1>>
SixDigits(n) == [i \in 1..6 |-> Digit((n \div Pow10[i]) % 10)]

\* the day on which the clock of the model starts, at midnight UTC
DATE == <<"2", "0", "2", "2", "-", "1", "1", "-", "0", "2">>

\* time.time() as int, in seconds
unix_time(t) == t \div Res

\* datetime.microsecond of the instant t
microsecond(t) == (t % Res) * (1000000 \div Res)

\* datetime.isoformat("T"): the fraction is printed only when it is not zero
isoformat(t) ==
    LET secs == unix_time(t)
    IN  DATE \o <<"T">> \o TwoDigits((secs \div 3600) % 24) \o <<":">>
             \o TwoDigits((secs \div 60) % 60) \o <<":">> \o TwoDigits(secs % 60)
             \o (IF microsecond(t) = 0 THEN << >>
                 ELSE <<".">> \o SixDigits(microsecond(t)))

\* line 310: datetime.utcnow().isoformat("T")[:-7] + "Z"
current_date(t) ==
    LET iso == isoformat(t)
    IN  SubSeq(iso, 1, Len(iso) - 7) \o <<"Z">>

\* _get_api_headers, lines 118-138
get_api_headers ==
    [h \in {"accept", "accept-encoding", "accept-language", "currenttransportmethod",
            "is_archived_items", "software_rev", "user-agent", "x-adp-app-id",
            "x-adp-app-sw", "x-adp-attemptcount", "x-adp-cor", "x-adp-country",
            "x-adp-lto", "x-adp-pfm", "x-adp-reason", "x-adp-sw", "x-adp-transport",
            "x-amzn-accept-type"} |->
        CASE h = "accept" -> "*/*"
          [] h = "accept-encoding" -> "gzip"
          [] h = "accept-language" -> "en-US"
          [] h \in {"currenttransportmethod", "x-adp-transport"} -> "WiFi"
          [] h \in {"is_archived_items", "x-adp-attemptcount"} -> "1"
          [] h \in {"software_rev", "x-adp-app-sw", "x-adp-sw"} -> SW_VERSION
          [] h = "user-agent" -> "okhttp/3.12.1"
          [] h = "x-adp-app-id" -> APP_NAME
          [] h \in {"x-adp-cor", "x-adp-country"} -> "US"
          [] h = "x-adp-lto" -> "0"
          [] h = "x-adp-pfm" -> PFM
          [] h = "x-adp-reason" -> "ArchivedItems"
          [] h = "x-amzn-accept-type" -> "application/x.amzn.digital.deliverymanifest@1.0"]

\* dict item assignment and dict.update: the new items replace those of the same name
set_header(headers, name, value) == (name :> value) @@ headers
merge_headers_keep(headers, new) == headers @@ new
merge_headers(headers, new) == new @@ headers

\* lines 311-314: the path that is signed
signed_path(u) == IF u.query # "" THEN <<u.path, u.params, "?", u.query>> ELSE <<u.path>>

\* lines 317-318: the PKCS#1 v1.5 signature of the SHA-256 of data under key
rsa_sign(key, data) == [alg |-> "SHA256WithRSA", key |-> key, data |-> data]

SignedNames == {"x-adp-token", "x-adp-alg", "x-adp-signature", "x-amzn-requestid"}

\* signed_request, lines 301-337, on a session that has a credential; a is the
\* record of the arguments, a.uuid the value uuid4() draws
build_request(S, a) ==
    LET acct == S.account[1]
        secs == unix_time(S.now)
        request_id == IF a.request_id = None THEN <<"uuid4", a.uuid>>
                      ELSE <<a.request_id[1], secs, "420">>
        body == IF a.body = None THEN "" ELSE a.body[1]
        date == current_date(S.now)
        data == <<a.method, signed_path(a.url), date, body, acct.adp_token>>
        signature == <<rsa_sign(acct.private_key, data), ":", date>>
        h0 == IF a.headers = << >> THEN get_api_headers ELSE a.headers
        h1 == IF a.asin # None
              THEN set_header(h0, "x-adp-correlationid",
                              <<a.asin[1], "-", secs, "420.kindle.ebook">>)
              ELSE h0
        h2 == IF a.request_type = Some("DRM_VOUCHER")
              THEN set_header(h1, "accept", "application/x-com.amazon.drm.Voucher@1.0")
              ELSE h1
        signed == [h \in SignedNames |->
                     CASE h = "x-adp-token" -> acct.adp_token
                       [] h = "x-adp-alg" -> "SHA256WithRSA:1.0"
                       [] h = "x-adp-signature" -> signature
                       [] h = "x-amzn-requestid" -> request_id]
    IN  [method |-> a.method, url |-> a.url, headers |-> merge_headers(h2, signed),
         body |-> body]

\* signed_request, lines 283-337: [session, request]
signed_request(S, a) ==
    LET ready == IF S.account = None THEN authenticate(Enter(S, "signed_request"))
                 ELSE {Enter(S, "signed_request")}
    IN  { [session |-> S1, request |-> None] : S1 \in Raising(ready) }
        \cup { [session |-> S1, request |-> Some(build_request(S1, a))] :
               S1 \in Running(ready) }

\* what the callers of the model pass to signed_request; no headers and an empty
\* dict are the same to "if not headers"
CallerHeaders ==
    {<< >>,
     ("accept" :> "application/json"),
     ("x-adp-token" :> "caller token") @@ ("x-adp-alg" :> "none")
        @@ ("x-adp-signature" :> "caller signature") @@ ("x-amzn-requestid" :> "caller id")}

CallerUrls ==
    {[path |-> "/FirsProxy/registerAssociatedDevice", params |-> "", query |-> ""],
     [path |-> "/kindle/item", params |-> "", query |-> "asin=B00"]}

SignArgs ==
    [method : {"GET", "POST"}, url : CallerUrls, headers : CallerHeaders,
     body : {None, Some("<request/>")}, asin : {None, Some("B00")},
     request_id : {None, Some("init")}, request_type : {None, Some("DRM_VOUCHER")},
     uuid : {1}]

\* a credential as a registration leaves it
RegisteredAccount ==
    from_data(RegisterData(TRUE, TRUE, TRUE, TRUE, TRUE, 1, REFRESH_WINDOW),
              EMAIL, Some("hunter2"), DOMAIN_TLD, 0).account

\* A session that was constructed, with a password, and either has logged in
\* from a token file or has not logged in yet
InitSign ==
    /\ deviceFile = TextFile(Stored16)
    /\ alive = TRUE
    /\ password = Some("hunter2")
    /\ device_id = token_hex(SERIAL_BYTES, 1)
    /\ \/ account = None /\ tokenFile = NoTokenFile
       \/ account = RegisteredAccount /\ tokenFile = JsonFile(to_dict(RegisteredAccount[1]))
    /\ ip = None
    /\ now = 0
    /\ exporter = None
    /\ callers = << >>
    /\ last = Idle

SignedRequest ==
    /\ alive /\ last = Idle
    /\ \E a \in SignArgs : \E r \in signed_request(Start, a) :
         Commit("signed_request", r.session, r.request)

NextSign == SignedRequest \/ Tick \/ Return

SpecSign == InitSign /\ [][NextSign]_vars

-----------------------------------------------------------------------------
(* Page keys: key.py, ComixKey.  Bytes are the numbers 0..255. *)

\* ord() of the characters the key is made of
Ord(c) ==
    IF c = "." THEN 46
    ELSE LET i == CHOOSE k \in 1..Len(HexDigits) : HexDigits[k] = c
         IN  IF i <= 10 THEN 47 + i ELSE 86 + i

\* str.encode() of a sequence of characters
encode(s) == [i \in 1..Len(s) |-> Ord(s[i])]

\* str(n).encode() of a natural number
RECURSIVE str_int(_)
str_int(n) == IF n < 10 THEN <<48 + n>> ELSE str_int(n \div 10) \o <<48 + (n % 10)>>

\* int(s) of a sequence of decimal digits
RECURSIVE int_str(_)
int_str(s) ==
    IF Len(s) = 0 THEN 0
    ELSE 10 * int_str(SubSeq(s, 1, Len(s) - 1)) + (Ord(s[Len(s)]) - 48)

\* version[::-1]
slice_reversed(s) == [i \in 1..Len(s) |-> s[Len(s) + 1 - i]]

\* x ^ y on bytes
RECURSIVE xor(_, _)
xor(x, y) ==
    IF x = 0 /\ y = 0 THEN 0 ELSE ((x + y) % 2) + 2 * xor(x \div 2, y \div 2)

\* lines 78-79: for j in range(0, len(e), 1): e[j] = e[j] ^ b
xor_bytes(e, b) == [j \in 1..Len(e) |-> xor(e[j], b)]

\* hashlib.md5(a).digest() is not computed: a stand-in that maps any bytes to 16
\* bytes, depends on nothing but the bytes, and has no collision on the buffers
\* of this model, as MD5 is taken to have none
RECURSIVE md5_mix(_, _, _)
md5_mix(a, k, acc) ==
    IF a = << >> THEN acc
    ELSE md5_mix(Tail(a), k, (acc * (31 + 2 * k) + Head(a) + k) % 65521)
md5(a) == [k \in 1..16 |-> md5_mix(a, k, Len(a) + 1) % 256]

\* binascii.hexlify(...).decode("utf-8").lower(): two lower-case digits a byte
hexlify(bs) ==
    [i \in 1..(2 * Len(bs)) |->
        LET byte == bs[(i + 1) \div 2]
        IN  IF i % 2 = 1 THEN HexDigits[(byte \div 16) + 1] ELSE HexDigits[(byte % 16) + 1]]

\* ComixKey.hash, lines 34-36
hash(a) == hexlify(md5(a))

\* a[x], a[y] = a[y], a[x] with positions counted from 0
swap(a, x, y) == [a EXCEPT ![x + 1] = a[y + 1], ![y + 1] = a[x + 1]]

\* ComixKey.reverse, lines 38-46: the loop over range(len(a) - 1, 0, -1); the
\* stop of the range is the i of line 40, which the loop does not re-read
RECURSIVE reverse_loop(_, _, _)
reverse_loop(a, idx, i) ==
    IF idx < 1 THEN a ELSE reverse_loop(swap(a, idx, i), idx - 1, i + 1)

\* ComixKey.reverse: the buffer is changed in place and returned
reverse(a) == reverse_loop(a, Len(a) - 1, 0)

\* ComixKey.expand, lines 54-56: the loop over range(len(a), len_mul, 1)
RECURSIVE expand_loop(_, _, _)
expand_loop(b, j, len_base) ==
    IF j >= Len(b) THEN b
    ELSE expand_loop([b EXCEPT ![j + 1] = b[len_base]], j + 1, len_base - 1)

\* an expansion whose second half is what ComixKey.reverse makes of the first
expand_by_reverse(a) == a \o reverse(a)

\* ComixKey.expand, lines 48-57: a new bytearray of twice the length
expand(a) ==
    LET len_mul == Len(a) * 2
        b == [i \in 1..len_mul |-> IF i <= Len(a) THEN a[i] ELSE 0]
    IN  expand_loop(b, Len(a), Len(a))

\* the alphabet of base64.b64encode
B64 ==
    <<"A", "B", "C", "D", "E", "F", "G", "H", "I", "J", "K", "L", "M", "N", "O", "P",
      "Q", "R", "S", "T", "U", "V", "W", "X", "Y", "Z", "a", "b", "c", "d", "e", "f",
      "g", "h", "i", "j", "k", "l", "m", "n", "o", "p", "q", "r", "s", "t", "u", "v",
      "w", "x", "y", "z", "0", "1", "2", "3", "4", "5", "6", "7", "8", "9", "+", "/">>

KEY_LEN == 50

\* base64.b64encode: four characters for every three bytes, padded with "="
b64encode(bs) ==
    [i \in 1..(4 * ((Len(bs) + 2) \div 3)) |->
        LET g == (i - 1) \div 4
            k == (i - 1) % 4
            at(j) == IF 3 * g + j <= Len(bs) THEN bs[3 * g + j] ELSE 0
            v == at(1) * 65536 + at(2) * 256 + at(3)
            sextet == CASE k = 0 -> v \div 262144
                        [] k = 1 -> (v \div 4096) % 64
                        [] k = 2 -> (v \div 64) % 64
                        [] k = 3 -> v % 64
        IN  IF k >= 2 /\ 3 * g + k > Len(bs) THEN "=" ELSE B64[sextet + 1]]

\* calculate_key, lines 61-73: the bytes that are expanded and hashed
data_to_hash(digest, item_id, version, publisher_id, index) ==
    LET i == int_str(publisher_id) + 1 + (IF item_id % 2 = 0 THEN 1 ELSE 0)
    IN  str_int(index % 10) \o encode(slice_reversed(version)) \o str_int(item_id % 10)
            \o str_int(index * i) \o digest \o encode(version)
            \o str_int(int_str(publisher_id) % 10)

\* a buffer that tells even page indexes only
hashed_buffer_coarse(digest, item_id, version, publisher_id, index) ==
    LET even == (index \div 2) * 2
    IN  xor_bytes(expand(data_to_hash(digest, item_id, version, publisher_id, even)),
                  even % 256)

\* a buffer that is not mirrored before it is XOR-ed
hashed_buffer_unexpanded(digest, item_id, version, publisher_id, index) ==
    xor_bytes(data_to_hash(digest, item_id, version, publisher_id, index), index % 256)

\* calculate_key, lines 75-79: e as it is hashed the first time
hashed_buffer(digest, item_id, version, publisher_id, index) ==
    xor_bytes(expand(data_to_hash(digest, item_id, version, publisher_id, index)),
              index % 256)

\* a key that is the whole base64 text
calculate_key_untruncated(digest, item_id, version, publisher_id, index) ==
    LET e == hashed_buffer(digest, item_id, version, publisher_id, index)
        a == hash(e)
        e2 == reverse(e)
    IN  [key |-> b64encode(encode(a \o hash(e2))), hashed |-> <<e, e2>>, digest |-> digest]

\* calculate_key, lines 59-84: [key, hashed, digest]: the value returned, the two
\* buffers given to hash(), and the caller's digest when the call returns
calculate_key(digest, item_id, version, publisher_id, index) ==
    LET e == hashed_buffer(digest, item_id, version, publisher_id, index)
        a == hash(e)
        e2 == reverse(e)
    IN  [key |-> SubSeq(b64encode(encode(a \o hash(e2))), 1, KEY_LEN),
         hashed |-> <<e, e2>>, digest |-> digest]

\* the pages of the model: digests, item ids, versions, publisher ids, and page
\* indexes next to each other around 0, 10 and 256
Digests == {<<0, 255>>, <<222, 173, 190, 239>>}
ItemIds == {1000, 1001}
Versions == {<< >>, <<"1", ".", "0">>}
PublisherIds == {<<"5">>, <<"6", "6", "7", "0">>}
Indexes == {0, 1, 9, 10, 255, 256}

KeyArgs ==
    [digest : Digests, item_id : ItemIds, version : Versions,
     publisher_id : PublisherIds, index : Indexes]

\* the calls of calculate_key on the pages of the model, and what they return
KeyCalls ==
    { [args |-> a,
       result |-> calculate_key(a.digest, a.item_id, a.version, a.publisher_id, a.index)] :
      a \in KeyArgs }

\* No session: the key is computed from the page alone
InitKey ==
    /\ deviceFile = NoFile
    /\ tokenFile = NoTokenFile
    /\ alive = FALSE
    /\ password = None
    /\ account = None
    /\ device_id = << >>
    /\ ip = None
    /\ now = 0
    /\ exporter = None
    /\ callers = << >>
    /\ last = Idle

\* ComixKey.calculate_key(digest, item_id, version, publisher_id, index); a call
\* may follow another at once
CalculateKey ==
    /\ \E c \in KeyCalls :
         last' = [op |-> "calculate_key", args |-> c.args, ret |-> c.result.key,
                  hashed |-> c.result.hashed, digest |-> c.result.digest]
    /\ UNCHANGED <<deviceFile, tokenFile, alive, password, account, device_id, ip, now,
                   exporter, callers>>

NextKey == CalculateKey \/ Tick \/ Return

SpecKey == InitKey /\ [][NextKey]_vars

-----------------------------------------------------------------------------
(* Pages: exporter.py, MangaExporter, and cli.py, cmx_download_helper *)

VALID_IMAGES == {".jpg", ".jpeg", "jpg", "jpeg", ".png", "png"}

\* A passphrase, and the short verification value an encrypted archive stores
\* of it: the archive reader checks that value when it opens an entry, and the
\* authentication code of the entry only when it has read the entry to its end.
\* Two passphrases can have the same verification value.
RightKey == [text |-> "key of the page", check |-> 1]
WrongKey == [text |-> "another key", check |-> 2]
NearKey == [text |-> "a key with the same verification value", check |-> 1]
Passphrases == {RightKey, WrongKey, NearKey}

\* an archive entry: ZipInfo.filename as directory, stem and extension
ZipEntry(stem, ext, is_dir) == [stem |-> stem, ext |-> ext, is_dir |-> is_dir]

\* what session.get(image.url).content can be: an archive encrypted with the key
\* of the page, holding one image, no image, or a directory and its image, or
\* bytes that are no archive
Containers ==
    {[kind |-> "zip", pwd |-> RightKey, entries |-> e] :
        e \in {<<ZipEntry(<<"page">>, ".jpg", FALSE)>>,
               <<ZipEntry(<<"notes">>, ".txt", FALSE)>>,
               <<ZipEntry(<<"img">>, "", TRUE), ZipEntry(<<"img", "page">>, ".png", FALSE)>>}}
    \cup {[kind |-> "not_zip", pwd |-> RightKey, entries |-> << >>]}

\* AESZipFile.extractall(self._out_dir, pwd=image_key), line 71: the entries are
\* written in their order; a directory needs no passphrase; an entry whose
\* verification value does not match raises before its file is created, and one
\* whose authentication code does not match raises after its file was written
RECURSIVE extractall(_, _, _, _)
extractall(entries, zip_pwd, pwd, out) ==
    IF entries = << >> THEN [out_dir |-> out, exc |-> "none"]
    ELSE LET member == Head(entries)
         IN  IF member.is_dir THEN extractall(Tail(entries), zip_pwd, pwd, out \cup {member})
             ELSE IF pwd.check # zip_pwd.check THEN [out_dir |-> out, exc |-> "RuntimeError"]
             ELSE IF pwd # zip_pwd
             THEN [out_dir |-> out \cup {member}, exc |-> "BadZipFile"]
             ELSE extractall(Tail(entries), zip_pwd, pwd, out \cup {member})

\* add_image, lines 73-78: the names of the entries that are images
image_entries(entries) ==
    SelectSeq(entries, LAMBDA zfile : ~zfile.is_dir /\ zfile.ext \in VALID_IMAGES)

\* add_image, lines 80-87: each image is renamed to "<release> - pNNN<ext>"
RECURSIVE rename_images(_, _, _)
rename_images(exp, imgs, names) ==
    IF imgs = << >> THEN [exporter |-> exp, exc |-> "none", ret |-> names]
    ELSE LET img == Head(imgs)
             target_name == ZipEntry(<<"p", exp.image_count>>, img.ext, FALSE)
         IN  rename_images(
                 [exp EXCEPT !.out_dir = (@ \ {img}) \cup {target_name},
                             !.image_count = @ + 1],
                 Tail(imgs), Append(names, target_name))

\* MangaExporter.add_image, lines 64-91: [exporter, exc, ret]
add_image(exp, zip_bita, image_key) ==
    IF zip_bita.kind # "zip" THEN [exporter |-> exp, exc |-> "BadZipFile", ret |-> << >>]
    ELSE LET x == extractall(zip_bita.entries, zip_bita.pwd, image_key, exp.out_dir)
         IN  IF x.exc # "none"
             THEN [exporter |-> [exp EXCEPT !.out_dir = x.out_dir], exc |-> x.exc,
                   ret |-> << >>]
             ELSE rename_images([exp EXCEPT !.out_dir = x.out_dir],
                                image_entries(zip_bita.entries), << >>)

\* pages of a comic at most
MaxPages == 2

\* MangaExporter.__init__, lines 47-52, over the output directory as it is
MangaExporter(out_dir) == [out_dir |-> out_dir, image_count |-> 0, closed |-> FALSE]

\* MangaExporter.close, lines 93-94; the model records that it was called
close(exp) == [exp EXCEPT !.closed = TRUE]

\* MangaExporter.is_existing, lines 54-62
is_existing(exp, comic) ==
    Cardinality({f \in exp.out_dir : f.ext \in VALID_IMAGES}) = Len(comic.images)

\* a page of a comic: what the server answers for its url, and the passphrase
\* calculate_key derives for it
Responses == {[kind |-> "ConnectionError"]} \cup Containers
Images == [response : Responses, key : Passphrases]
Comics == UNION { [1..n -> Images] : n \in 0..MaxPages }

\* cmx_download_helper, lines 84-87: the loop from page idx on;
\* [exporter, exc, attempted]
RECURSIVE download_loop(_, _, _)
download_loop(exp, images, idx) ==
    IF idx >= Len(images) THEN [exporter |-> exp, exc |-> "none", attempted |-> idx]
    ELSE LET image == images[idx + 1]
         IN  IF image.response.kind = "ConnectionError"
             THEN [exporter |-> exp, exc |-> "ConnectionError", attempted |-> idx + 1]
             ELSE LET r == add_image(exp, image.response, image.key)
                  IN  IF r.exc # "none"
                      THEN [exporter |-> r.exporter, exc |-> r.exc, attempted |-> idx + 1]
                      ELSE download_loop(r.exporter, images, idx + 1)

\* cmx_download_helper, lines 73-90: [exporter, exc, attempted, existing]
cmx_download_helper(comic, out_dir) ==
    LET cmx_export == MangaExporter(out_dir)
    IN  IF is_existing(cmx_export, comic)
        THEN [exporter |-> close(cmx_export), exc |-> "none", attempted |-> 0,
              existing |-> TRUE]
        ELSE LET r == download_loop(cmx_export, comic.images, 0)
             IN  [exporter |-> IF r.exc = "none" THEN close(r.exporter) ELSE r.exporter,
                  exc |-> r.exc, attempted |-> r.attempted, existing |-> FALSE]

\* the output directory as the last exporter left it
OutDir == IF exporter = None THEN {} ELSE exporter[1].out_dir

\* Nothing was downloaded yet
InitExport ==
    /\ deviceFile = NoFile
    /\ tokenFile = NoTokenFile
    /\ alive = FALSE
    /\ password = None
    /\ account = None
    /\ device_id = << >>
    /\ ip = None
    /\ now = 0
    /\ exporter = None
    /\ callers = << >>
    /\ last = Idle

\* exporter_factory(comic, output_directory), lines 211-222, mode raw
ExporterFactory ==
    /\ last = Idle
    /\ exporter' = Some(MangaExporter(OutDir))
    /\ last' = [op |-> "exporter_factory"]
    /\ UNCHANGED <<deviceFile, tokenFile, alive, password, account, device_id, ip, now,
                   callers>>

\* cmx_export.add_image(response.content, image_key)
AddImage ==
    /\ last = Idle
    /\ exporter # None
    /\ ~exporter[1].closed
    /\ exporter[1].image_count < MaxPages
    /\ \E zip_bita \in Containers, image_key \in Passphrases :
         LET r == add_image(exporter[1], zip_bita, image_key)
         IN  /\ exporter' = Some(r.exporter)
             /\ last' = [op |-> "add_image", exc |-> r.exc, ret |-> r.ret,
                         zip_bita |-> zip_bita, image_key |-> image_key,
                         before |-> exporter[1]]
    /\ UNCHANGED <<deviceFile, tokenFile, alive, password, account, device_id, ip, now,
                   callers>>

\* cmx_export.close()
Close ==
    /\ last = Idle
    /\ exporter # None
    /\ ~exporter[1].closed
    /\ exporter' = Some(close(exporter[1]))
    /\ last' = [op |-> "close"]
    /\ UNCHANGED <<deviceFile, tokenFile, alive, password, account, device_id, ip, now,
                   callers>>

\* cmx_download_helper(comic, output_dir, session, export_type)
Download ==
    /\ last = Idle
    /\ \E images \in Comics :
         LET comic == [images |-> images]
             r == cmx_download_helper(comic, OutDir)
         IN  /\ exporter' = Some(r.exporter)
             /\ last' = [op |-> "cmx_download_helper", exc |-> r.exc, comic |-> comic,
                         attempted |-> r.attempted, existing |-> r.existing]
    /\ UNCHANGED <<deviceFile, tokenFile, alive, password, account, device_id, ip, now,
                   callers>>

NextExport == ExporterFactory \/ AddImage \/ Close \/ Download \/ Return

SpecExport == InitExport /\ [][NextExport]_vars

-----------------------------------------------------------------------------
(* Threads that read AmazonAuth.token of one session: amz.py, token and       *)
(* refresh_token, statement by statement.  Nothing in the class is a lock.    *)

\* threads at most
MaxCallers == 2
Callers == 1..MaxCallers

\* a thread that is not in token: [pc, expired, sent, resp, ret, exc]
Outside ==
    [pc |-> "outside", expired |-> FALSE, sent |-> FALSE, resp |-> None, ret |-> None,
     exc |-> "none"]

\* a refresh that looks at the expiry again before it asks the server
needs_refresh_rechecked(expired, acct, t) == expired /\ is_expired(acct, t)

\* lines 373-374 and 222-229: refresh_token() runs when the test of line 373
\* was true; it does not read expire_at again
needs_refresh(expired, acct, t) == expired

\* A session that has logged in, with a password, read by no thread yet
InitRace ==
    /\ deviceFile = TextFile(Stored16)
    /\ alive = TRUE
    /\ password = Some("hunter2")
    /\ device_id = token_hex(SERIAL_BYTES, 1)
    /\ account = RegisteredAccount
    /\ tokenFile = JsonFile(to_dict(RegisteredAccount[1]))
    /\ ip = None
    /\ now = 0
    /\ exporter = None
    /\ callers = [c \in Callers |-> Outside]
    /\ last = Idle

\* a step of thread c that touches neither the credential nor the file
Local(c, rec) ==
    /\ callers' = [callers EXCEPT ![c] = rec]
    /\ UNCHANGED <<deviceFile, tokenFile, alive, password, account, device_id, ip, now,
                   exporter, last>>

\* line 371: self._account is not None, login() is not called
ReadToken(c) ==
    /\ callers[c].pc = "outside"
    /\ account # None
    /\ Local(c, [Outside EXCEPT !.pc = "check"])

\* line 373: if self._account.is_expired()
CheckExpiry(c) ==
    /\ callers[c].pc = "check"
    /\ LET expired == is_expired(account[1], now)
       IN  Local(c, [callers[c] EXCEPT !.expired = expired,
                                       !.pc = IF expired THEN "refresh" ELSE "return"])

\* lines 222-242: refresh_token() up to the request it sends
SendRefresh(c) ==
    /\ callers[c].pc = "refresh"
    /\ Local(c, IF ~needs_refresh(callers[c].expired, account[1], now)
                THEN [callers[c] EXCEPT !.pc = "return"]
                ELSE IF password = None
                THEN [callers[c] EXCEPT !.pc = "raised", !.exc = "AuthFailed"]
                ELSE [callers[c] EXCEPT !.pc = "awaiting", !.sent = TRUE])

\* lines 240-242: the answer of the token endpoint arrives; line 244 raises a
\* KeyError when it holds no access_token
ReceiveRefresh(c) ==
    /\ callers[c].pc = "awaiting"
    /\ \E r \in RefreshResponses :
         Local(c, IF r.kind # "json" THEN [callers[c] EXCEPT !.pc = "raised", !.exc = r.kind]
                  ELSE IF ~r.has_token
                  THEN [callers[c] EXCEPT !.pc = "raised", !.exc = "KeyError"]
                  ELSE [callers[c] EXCEPT !.pc = "set_token", !.resp = Some(r.n)])

\* line 244: self._account.access_token = response_json["access_token"]
SetAccessToken(c) ==
    /\ callers[c].pc = "set_token"
    /\ account' = Some([account[1] EXCEPT !.access_token = <<"refreshed", callers[c].resp[1]>>])
    /\ callers' = [callers EXCEPT ![c].pc = "set_expiry"]
    /\ UNCHANGED <<deviceFile, tokenFile, alive, password, device_id, ip, now, exporter, last>>

\* line 247: self._account.update_expiry(3600)
SetExpiry(c) ==
    /\ callers[c].pc = "set_expiry"
    /\ account' = Some(update_expiry(account[1], REFRESH_WINDOW, now))
    /\ callers' = [callers EXCEPT ![c].pc = "write"]
    /\ UNCHANGED <<deviceFile, tokenFile, alive, password, device_id, ip, now, exporter, last>>

\* lines 248-249: json.dump(self._account.to_dict(), f)
WriteTokenFile(c) ==
    /\ callers[c].pc = "write"
    /\ tokenFile' = JsonFile(to_dict(account[1]))
    /\ callers' = [callers EXCEPT ![c].pc = "return"]
    /\ UNCHANGED <<deviceFile, alive, password, account, device_id, ip, now, exporter, last>>

\* line 375: return self._account.access_token
ReturnToken(c) ==
    /\ callers[c].pc = "return"
    /\ Local(c, [callers[c] EXCEPT !.pc = "done", !.ret = Some(account[1].access_token)])

\* the thread takes the token, or the exception, and is outside again
LeaveToken(c) ==
    /\ callers[c].pc \in {"done", "raised"}
    /\ Local(c, Outside)

NextRace ==
    \/ \E c \in Callers :
         \/ ReadToken(c)
         \/ CheckExpiry(c)
         \/ SendRefresh(c)
         \/ ReceiveRefresh(c)
         \/ SetAccessToken(c)
         \/ SetExpiry(c)
         \/ WriteTokenFile(c)
         \/ ReturnToken(c)
         \/ LeaveToken(c)
    \/ Tick

SpecRace == InitRace /\ [][NextRace]_vars

-----------------------------------------------------------------------------
(* Byte buffers: key.py, reverse and expand, and amz.py, the PKCS#7 padding *)

\* the ANSI X.923 padding: zeros, and the number of bytes added in the last one
pkcs7_pad_x923(data) ==
    LET padsize == 16 - (Len(data) % 16)
    IN  data \o [i \in 1..padsize |-> IF i = padsize THEN padsize ELSE 0]

\* _pkcs7_pad, lines 102-104
pkcs7_pad(data) ==
    LET padsize == 16 - (Len(data) % 16)
    IN  data \o [i \in 1..padsize |-> padsize]

\* _pkcs7_unpad, lines 106-108: data[:-offset]; data[:-0] is empty
pkcs7_unpad(data) ==
    LET offset == data[Len(data)]
    IN  IF offset = 0 THEN << >> ELSE SubSeq(data, 1, Len(data) - offset)

\* buffers for reverse and expand: every sequence of these bytes up to MaxLen
MaxLen == 4
ByteValues == {0, 1, 255}
Buffers == UNION { [1..n -> ByteValues] : n \in 0..MaxLen }

\* buffers for the padding: every length up to MaxPadLen, of one byte repeated;
\* the bytes 1 and 16 make an input that ends like a padding
MaxPadLen == 33
PadFills == {1, 16, 255}
PadInputs == { [i \in 1..n |-> f] : n \in 0..MaxPadLen, f \in PadFills }

\* the calls of the model and what they return
ReverseCalls == { [arg |-> a, result |-> reverse(a)] : a \in Buffers }
ExpandCalls == { [arg |-> a, result |-> expand(a)] : a \in Buffers }
PadCalls ==
    { [arg |-> a, result |-> pkcs7_pad(a), unpadded |-> pkcs7_unpad(pkcs7_pad(a))] :
      a \in PadInputs }

\* ComixKey.reverse(a)
ReverseBuffer ==
    /\ \E c \in ReverseCalls : last' = [op |-> "reverse", arg |-> c.arg, ret |-> c.result]
    /\ UNCHANGED <<deviceFile, tokenFile, alive, password, account, device_id, ip, now,
                   exporter, callers>>

\* ComixKey.expand(a)
ExpandBuffer ==
    /\ \E c \in ExpandCalls : last' = [op |-> "expand", arg |-> c.arg, ret |-> c.result]
    /\ UNCHANGED <<deviceFile, tokenFile, alive, password, account, device_id, ip, now,
                   exporter, callers>>

\* self._pkcs7_pad(data), and self._pkcs7_unpad of what it returned
PadBuffer ==
    /\ \E c \in PadCalls :
         last' = [op |-> "_pkcs7_pad", arg |-> c.arg, ret |-> c.result,
                  unpadded |-> c.unpadded]
    /\ UNCHANGED <<deviceFile, tokenFile, alive, password, account, device_id, ip, now,
                   exporter, callers>>

NextBytes == ReverseBuffer \/ ExpandBuffer \/ PadBuffer

SpecBytes == InitKey /\ [][NextBytes]_vars

-----------------------------------------------------------------------------
(* Properties *)

Refreshes(l) == Count(l.trace, "POST /auth/token")
Registrations(l) == Count(l.trace, "POST /auth/register")

\* refresh_token() ran on a loaded credential and did not get a new access token
RefreshFailed(l) == Count(l.trace, "refresh_token") > 0 /\ l.granted = None

\* the place of the first e in a trace (0: none)
FirstAt(trace, e) ==
    IF \E i \in 1..Len(trace) : trace[i] = e
    THEN CHOOSE i \in 1..Len(trace) : trace[i] = e /\ \A j \in 1..(i - 1) : trace[j] # e
    ELSE 0

\* C1: reading token on an expired in-memory credential, when the refresh
\* succeeds, sends exactly one refresh request and no registration request,
\* and returns the access token the refresh granted.
C1_ExpiredTokenRefreshesOnce ==
    (last.op = "token" /\ last.pre = "expired" /\ last.exc = "none") =>
        /\ Refreshes(last) = 1
        /\ Registrations(last) = 0
        /\ last.granted # None
        /\ last.ret = last.granted

C1_Witness ==
    last.op = "token" /\ last.pre = "expired" /\ last.exc = "none" /\ Refreshes(last) = 1

\* C2 as stated: reading token on an expired in-memory credential whose
\* refresh fails sends exactly one registration request.
C2_FailedRefreshRegistersOnce ==
    (last.op = "token" /\ last.pre = "expired" /\ RefreshFailed(last)) =>
        Registrations(last) = 1

\* C2 amended: reading token on an expired in-memory credential whose
\* refresh fails sends no registration request; the failure of the refresh is
\* raised to the caller after at most one refresh request.
C2_FailedRefreshIsRaised ==
    (last.op = "token" /\ last.pre = "expired" /\ RefreshFailed(last)) =>
        /\ Registrations(last) = 0
        /\ Count(last.trace, "authenticate") = 0
        /\ last.exc # "none"
        /\ last.ret = None
        /\ Refreshes(last) <= 1

C2_Witness ==
    /\ last.op = "token" /\ last.pre = "expired" /\ RefreshFailed(last)
    /\ Refreshes(last) = 1 /\ last.exc = "KeyError"

\* C3: login() on a persisted credential whose expiry has passed enters
\* refresh_token() first; when that refresh fails, for whatever reason, the
\* failure is swallowed and authenticate() runs once, after the refresh.
C3_LoginFallsBackToRegister ==
    (last.op = "login" /\ last.loaded = "expired") =>
        /\ Len(last.trace) >= 2 /\ last.trace[2] = "refresh_token"
        /\ RefreshFailed(last) =>
             /\ last.caught # "none"
             /\ Count(last.trace, "authenticate") = 1
             /\ FirstAt(last.trace, "refresh_token") < FirstAt(last.trace, "authenticate")

C3_Witness ==
    /\ last.op = "login" /\ last.loaded = "expired" /\ RefreshFailed(last)
    /\ last.caught = "JSONDecodeError" /\ Registrations(last) = 1 /\ last.exc = "none"

\* C4 as stated: one login() sends at most one registration request.
C4_LoginRegistersAtMostOnce ==
    last.op = "login" => Registrations(last) <= 1

\* C5 as stated: a loaded credential counts as expired at every instant
\* from its expiry on, the instant of expiry included.
C5_ExpiredFromExpiryOn ==
    (account # None /\ now >= account[1].expire_at) => is_expired(account[1], now)

\* C6 as stated: constructing a session over a stored serial of 32 hex
\* characters uses that serial and leaves the device file as it was.
C6_ValidSerialIsKept ==
    [][(last'.op = "construct" /\ deviceFile.kind = "file" /\ IsValidSerial(deviceFile.text))
          => (device_id' = deviceFile.text /\ deviceFile' = deviceFile)]_vars

\* C7 as stated: constructing a session when the stored serial is absent or
\* is not 32 hex characters generates a new serial of 32 hex characters,
\* writes it to the device file and uses it.
C7_InvalidSerialIsRegenerated ==
    [][(last'.op = "construct" /\ ~(deviceFile.kind = "file" /\ IsValidSerial(deviceFile.text)))
          => /\ IsValidSerial(device_id')
             /\ deviceFile' = TextFile(device_id')
             /\ deviceFile' # deviceFile]_vars

\* C8 as stated: refresh_token() on a session without a password raises
\* AuthFailed, sends no request and changes neither the credential in memory
\* nor the token file.
C8_NoPasswordNoRefresh ==
    [][(last'.op = "refresh_token" /\ password = None)
          => /\ last'.exc = "AuthFailed"
             /\ NetCalls(last'.trace) = 0
             /\ account' = account
             /\ tokenFile' = tokenFile]_vars

\* C8 amended: refresh_token() on a session that has a credential loaded and
\* whose password is None raises AuthFailed, sends no request and changes
\* neither the credential in memory nor the token file.
C8_NoPasswordNoRefreshWhenLoaded ==
    [][(last'.op = "refresh_token" /\ password = None /\ account # None)
          => /\ last'.exc = "AuthFailed"
             /\ NetCalls(last'.trace) = 0
             /\ account' = account
             /\ tokenFile' = tokenFile]_vars

C8_Witness ==
    /\ last.op = "refresh_token" /\ password = None /\ last.pre # "none"
    /\ last.exc = "AuthFailed"

\* C9: a refresh that succeeds puts the granted access token in the
\* credential and sets its expiry to the second of the refresh plus 3600
\* seconds; every other field of the credential stays as it was.
C9_RefreshChangesTokenAndExpiryOnly ==
    [][(last'.op = "refresh_token" /\ last'.exc = "none" /\ last'.granted # None)
          => /\ account # None
             /\ account' = Some([account[1] EXCEPT
                                   !.access_token = last'.granted[1],
                                   !.expire_at = IntSeconds(now') + REFRESH_WINDOW * Res])]_vars

C9_Witness ==
    /\ last.op = "refresh_token" /\ last.exc = "none" /\ last.granted # None
    /\ account[1].access_token = last.granted[1]
    /\ account[1].private_key[1] = "firs key"

\* C10 as stated: an authenticate() that fails leaves the credential in
\* memory as it was before the call.
C10_FailedRegisterKeepsNothing ==
    [][(last'.op = "authenticate" /\ last'.exc # "none") => account' = account]_vars

\* C11: whenever login(), authenticate() (the registration) or refresh_token()
\* returns without an exception, the token file holds exactly the serialization
\* of the credential in memory, after any sequence of operations.
C11_PersistedMatchesMemory ==
    (last.op \in {"login", "authenticate", "refresh_token"} /\ last.exc = "none")
        => /\ account # None
           /\ tokenFile = JsonFile(to_dict(account[1]))

\* a refresh replaced the access token of a credential that had been persisted
C11_Witness ==
    /\ last.op \in {"login", "refresh_token"}
    /\ last.exc = "none"
    /\ last.granted # None
    /\ last.pre = "expired"
    /\ tokenFile = JsonFile(to_dict(account[1]))

\* C12: no operation of the session removes the token file, and a refresh or a
\* registration that fails (refresh_token(), authenticate(), or the refresh inside
\* token() on a loaded credential) leaves the token file with the content it had
\* before the call.
C12_FailureKeepsPersistedRecord ==
    [][ /\ tokenFile.kind # "absent" => tokenFile'.kind # "absent"
        /\ ( /\ last = Idle
             /\ last'.exc # "none"
             /\ \/ last'.op \in {"authenticate", "refresh_token"}
                \/ last'.op = "token" /\ account # None )
           => tokenFile' = tokenFile ]_vars

\* a refresh or a registration failed on a session whose credential was persisted
C12_Witness ==
    /\ last.op \in {"authenticate", "refresh_token"}
    /\ last.exc # "none"
    /\ last.pre # "none"
    /\ NetCalls(last.trace) > 0
    /\ tokenFile.kind = "json"

\* C13: a token read on a session whose credential is loaded and not expired
\* returns the access token held in memory, enters no login, refresh or
\* registration and sends no request, and changes neither the credential in
\* memory nor the token file; and a credential that was just refreshed is not
\* expired, so the read that follows a successful refresh is such a read.
C13_ValidTokenReadIsCached ==
    [][ /\ ( /\ last = Idle
             /\ last'.op = "token"
             /\ account # None
             /\ ~is_expired(account[1], now) )
           => /\ last'.exc = "none"
              /\ last'.ret = Some(account[1].access_token)
              /\ last'.trace = <<"token">>
              /\ account' = account
              /\ tokenFile' = tokenFile
        /\ ( /\ last = Idle
             /\ last'.granted # None
             /\ last'.exc = "none" )
           => ~is_expired(account'[1], now') ]_vars

\* a token read that found a refreshed credential still valid and returned it
C13_Witness ==
    /\ last.op = "token"
    /\ last.pre = "valid"
    /\ last.exc = "none"
    /\ last.trace = <<"token">>
    /\ last.ret = Some(<<"refreshed", 1>>)

\* C14: every request that signed_request builds carries the headers x-adp-token,
\* x-adp-alg, x-adp-signature and x-amzn-requestid; x-adp-alg is SHA256WithRSA:1.0,
\* and x-adp-token is the adp token of the credential, the one that ends the
\* string that was signed, whatever headers the caller passed.
C14_SignedHeadersPresent ==
    (last.op = "signed_request" /\ last.exc = "none")
        => LET h == last.ret[1].headers
           IN  /\ SignedNames \subseteq DOMAIN h
               /\ h["x-adp-alg"] = "SHA256WithRSA:1.0"
               /\ h["x-adp-token"] = account[1].adp_token
               /\ h["x-adp-signature"][1].data[5] = h["x-adp-token"]
               /\ h["x-adp-signature"][1].key = account[1].private_key

\* a request was built from headers of the caller that hold the four names
C14_Witness ==
    /\ last.op = "signed_request"
    /\ last.exc = "none"
    /\ DOMAIN last.ret[1].headers = SignedNames \cup {"x-adp-correlationid"}
    /\ "x-adp-correlationid" \in DOMAIN last.ret[1].headers
    /\ last.ret[1].headers["x-adp-token"] = <<"firs adp", 1>>

C16_NextIndexChangesKey ==
    [][ ( /\ last.op = "calculate_key"
          /\ last'.op = "calculate_key"
          /\ last'.args = [last.args EXCEPT !.index = @ + 1] )
        => /\ last'.hashed[1] # last.hashed[1]
           /\ last'.hashed[2] # last.hashed[2]
           /\ last'.ret # last.ret ]_vars

\* the key of page 10 was computed, and it is not the key of page 9
C16_Witness ==
    /\ last.op = "calculate_key"
    /\ last.args.index = 10
    /\ last.args.publisher_id = <<"5">>
    /\ last.hashed[1][1] = xor(Ord("0"), 10)
    /\ Len(last.hashed[1]) = 2 * (5 + Len(last.args.digest) + 2 * Len(last.args.version))
    /\ \E c \in KeyCalls : c.args = [last.args EXCEPT !.index = 9] /\ c.result.key # last.ret

\* C17: add_image on an archive that opens with the passphrase and holds no
\* entry with an image extension fails with a NoImageEntryError and does not
\* return an empty list.
C17_NoImageEntryFails ==
    ( /\ last.op = "add_image"
      /\ last.zip_bita.kind = "zip"
      /\ last.image_key = last.zip_bita.pwd
      /\ image_entries(last.zip_bita.entries) = << >> )
        => last.exc = "NoImageEntryError"

\* C18: add_image with a passphrase that is not the one of the archive fails,
\* leaves in the output directory no file of the archive, and leaves the page
\* counter as it was.
C18_WrongPassphraseLeavesNothing ==
    ( /\ last.op = "add_image"
      /\ last.zip_bita.kind = "zip"
      /\ last.image_key # last.zip_bita.pwd )
        => /\ last.exc # "none"
           /\ { f \in exporter[1].out_dir : ~f.is_dir } =
                 { f \in last.before.out_dir : ~f.is_dir }
           /\ exporter[1].image_count = last.before.image_count

\* the page cannot be decrypted: its passphrase is not the one of the archive,
\* or what the server sent is no archive
DecryptFails(image) ==
    /\ image.response.kind # "ConnectionError"
    /\ \/ image.response.kind # "zip"
       \/ image.key # image.response.pwd

\* C19: a download in which every page was received and the decryption of some
\* page fails still goes through every page of the comic, and the exporter is
\* closed when it ends.
C19_FailedPageDoesNotStopDownload ==
    ( /\ last.op = "cmx_download_helper"
      /\ ~last.existing
      /\ \A i \in 1..Len(last.comic.images) :
            last.comic.images[i].response.kind # "ConnectionError"
      /\ \E i \in 1..Len(last.comic.images) : DecryptFails(last.comic.images[i]) )
        => /\ last.attempted = Len(last.comic.images)
           /\ exporter[1].closed

\* the threads that have sent the refresh request of their read
Refreshing == { c \in DOMAIN callers : callers[c].sent /\ callers[c].pc # "outside" }

\* C20: token is not safe for threads that share a session.  A thread that
\* found the credential expired sends its own refresh request, whatever another
\* thread has done to the credential since: every thread past the test of line
\* 373 that found the credential expired has sent a request; and the threads
\* that change the credential in memory and then the token file, in separate
\* steps, are threads that sent a request and got a token.  (That two threads
\* can be there together is the state of C20_Witness.)
C20_EveryExpiredReadRefreshes ==
    \A c \in DOMAIN callers :
        /\ ( /\ callers[c].expired
             /\ callers[c].pc \in {"awaiting", "set_token", "set_expiry", "write", "return",
                                   "done"} )
           => callers[c].sent
        /\ callers[c].pc \in {"set_token", "set_expiry", "write"}
           => (callers[c].sent /\ callers[c].resp # None)

\* two threads have each sent a refresh request for the same expired credential,
\* and the credential in memory is already ahead of the token file
C20_Witness ==
    /\ Cardinality(Refreshing) >= 2
    /\ \E c \in Refreshing : callers[c].pc = "write"
    /\ \E c \in Refreshing : callers[c].pc \in {"awaiting", "set_token"}
    /\ tokenFile = JsonFile(to_dict(RegisteredAccount[1]))
    /\ tokenFile # JsonFile(to_dict(account[1]))

\* the ISO-8601 date-time of the instant t, cut to whole seconds, with Z
Iso8601Seconds(t) ==
    LET secs == unix_time(t)
    IN  DATE \o <<"T">> \o TwoDigits((secs \div 3600) % 24) \o <<":">>
             \o TwoDigits((secs \div 60) % 60) \o <<":">> \o TwoDigits(secs % 60) \o <<"Z">>

\* C21: the timestamp in the string that is signed, and the one in the
\* x-adp-signature header, is YYYY-MM-DDTHH:MM:SSZ of the current time, at every
\* instant, also one whose sub-second part is zero.
C21_TimestampIsWholeSecondsZ ==
    (last.op = "signed_request" /\ last.exc = "none")
        => LET signature == last.ret[1].headers["x-adp-signature"]
           IN  /\ signature[3] = Iso8601Seconds(now)
               /\ signature[1].data[3] = Iso8601Seconds(now)

\* C22: reverse returns its input in the opposite order, for a buffer of any
\* length: element k of the result is element n-1-k of the input.
C22_ReverseReverses ==
    last.op = "reverse"
        => /\ Len(last.ret) = Len(last.arg)
           /\ \A k \in 1..Len(last.arg) : last.ret[k] = last.arg[Len(last.arg) + 1 - k]

\* C23: expand returns a buffer of twice the length of its input, whose first
\* half is the input and whose second half is the input in the opposite order.
C23_ExpandAppendsMirror ==
    last.op = "expand"
        => LET n == Len(last.arg)
           IN  /\ Len(last.ret) = 2 * n
               /\ \A k \in 1..n : /\ last.ret[k] = last.arg[k]
                                  /\ last.ret[n + k] = last.arg[n + 1 - k]

\* a buffer of four bytes that is no palindrome, inside or outside, was expanded
C23_Witness ==
    /\ last.op = "expand"
    /\ Len(last.arg) = 4
    /\ last.arg[1] # last.arg[4]
    /\ last.arg[2] # last.arg[3]
    /\ Len(last.ret) = 8

\* C24: the padding appends between 1 and 16 bytes, each of them the number of
\* bytes appended; the padded length is the smallest multiple of 16 greater than
\* the length of the input, a whole block more when the input is a whole number
\* of blocks; and _pkcs7_unpad of the padded data is the input.
C24_PaddingRoundTrip ==
    last.op = "_pkcs7_pad"
        => LET n == Len(last.arg)
               added == Len(last.ret) - n
           IN  /\ added \in 1..16
               /\ SubSeq(last.ret, 1, n) = last.arg
               /\ \A k \in (n + 1)..Len(last.ret) : last.ret[k] = added
               /\ Len(last.ret) % 16 = 0
               /\ Len(last.ret) > n
               /\ Len(last.ret) - 16 <= n
               /\ last.unpadded = last.arg

\* a whole block of bytes 16 was padded with another block
C24_Witness ==
    /\ last.op = "_pkcs7_pad"
    /\ Len(last.arg) = 16
    /\ last.arg[16] = 16
    /\ Len(last.ret) = 32
    /\ last.unpadded = last.arg

\* C25: in calculate_key the buffer hashed first and the buffer hashed second are
\* equal byte for byte: the buffer is a palindrome, the reverse step leaves it as
\* it is, the two hashes are equal and the passphrase is the first 50 characters
\* of the base64 text of one MD5 value written twice.
C25_BothHashesEqual ==
    last.op = "calculate_key"
        => LET e == last.hashed[1]
               a == hash(e)
           IN  /\ last.hashed[2] = e
               /\ e = slice_reversed(e)
               /\ hash(last.hashed[2]) = a
               /\ last.ret = SubSeq(b64encode(encode(a \o a)), 1, KEY_LEN)

\* a key was computed from a buffer of many different bytes, XOR-ed with a
\* non-zero byte
C25_Witness ==
    /\ last.op = "calculate_key"
    /\ last.args.index % 256 # 0
    /\ Len(last.hashed[1]) >= 16
    /\ last.hashed[1][1] # last.hashed[1][2]
    /\ last.hashed[1][2] # last.hashed[1][3]
    /\ last.hashed[2] = last.hashed[1]

\* C26: when the device association call is answered with a status that is not
\* 200, and the operation does nothing after the registration, it ends without an
\* exception, the credential holds the private key and the adp token of the
\* registration response, and the token file holds that credential.
C26_AssociationFailureIsNoFailure ==
    (last.trace # << >> /\ last.trace[Len(last.trace)] = AssocStatus(503))
        => /\ last.exc = "none"
           /\ account # None
           /\ \E n \in Nonces :
                /\ account[1].private_key = <<"mac_dms key", n>>
                /\ account[1].adp_token = <<"mac_dms adp", n>>
           /\ tokenFile = JsonFile(to_dict(account[1]))

\* authenticate() ended after an association call that was answered 503, which
\* took its time
C26_Witness ==
    /\ last.op = "authenticate"
    /\ Count(last.trace, AssocStatus(503)) = 1
    /\ Registrations(last) = 1
    /\ last.exc = "none"
    /\ account # None
    /\ tokenFile = JsonFile(to_dict(account[1]))
    /\ now > 0

====
